---- MODULE Spec2Model ----
(***************************************************************************)
(* A model of madminer/tools/utils.py: general_init, call_command,         *)
(* create_missing_folders and format_benchmark.                            *)
(*                                                                         *)
(* Each function is modelled step by step (one action per statement or     *)
(* system call).  The four functions are independent, so each has its own  *)
(* specification over the shared variables:                                *)
(*   SpecFolders  one caller of create_missing_folders, called twice       *)
(*   SpecConc     two concurrent callers and an external process           *)
(*   SpecCmd      call_command                                             *)
(*   SpecInit     general_init and other users of the root logger          *)
(*   SpecFmt      format_benchmark                                         *)
(***************************************************************************)
EXTENDS Integers, Sequences, FiniteSets, TLC

VARIABLES
    \* ---- the filesystem and the callers of create_missing_folders
    fs,         \* path -> "none" | "dir" | "file"
    fs0,        \* the filesystem when the first call started (history)
    fs1,        \* the filesystem when the first call returned (history)
    folders,    \* caller -> the argument of create_missing_folders
    idx,        \* caller -> position of the for loop (1-based)
    pc,         \* caller -> where the caller is
    pending,    \* caller -> stack of os.makedirs frames (innermost last)
    oserr,      \* caller -> the exception that ended the call
    examined,   \* caller -> positions on which os.path.exists was called
    ncall,      \* caller -> 1 in the first call, 2 in the repeated call
    raced,      \* caller -> paths others changed since its existence check
    extLeft,    \* steps the external process may still take
    \* ---- call_command
    ccpc,       \* where call_command is
    cmd,        \* its argument cmd
    log_file,   \* its argument log_file, "None" when not given
    files,      \* log file path -> content (a sequence of chunks) or Absent
    out,        \* the stdout pipe, read by proc.communicate()
    err,        \* the stderr pipe, read by proc.communicate()
    exitcode,   \* proc.returncode
    result,     \* <<v>> when call_command returned v
    ccexc,      \* the exception call_command raised
    ninv,       \* number of invocations so far
    prior,      \* content of the log file when the call started (history)
    procOut,    \* what this invocation's process wrote, in order (history)
    \* ---- general_init and the logging module
    gipc,       \* where general_init is
    debug,      \* its argument debug
    rootLevel,  \* logging.root.level, the process-wide threshold
    rootHandlers, \* len(logging.root.handlers)
    line,       \* banner lines logged so far by this call
    emitted,    \* records this call handed to the root handlers
    floatFormatter, \* numpy's float_kind formatter
    \* ---- format_benchmark
    fbpc,       \* where format_benchmark is
    parameters, \* its argument: the mapping, as its items in iteration order
    precision,  \* its argument precision
    i,          \* the loop index of enumerate
    output      \* the string built so far, as a sequence of pieces

fsvars == <<fs, fs0, fs1, folders, idx, pc, pending, oserr, examined, ncall,
            raced, extLeft>>

ccvars == <<ccpc, cmd, log_file, files, out, err, exitcode, result, ccexc,
            ninv, prior, procOut>>

givars == <<gipc, debug, rootLevel, rootHandlers, line, emitted,
            floatFormatter>>

fbvars == <<fbpc, parameters, precision, i, output>>

vars == <<fsvars, ccvars, givars, fbvars>>

-----------------------------------------------------------------------------
(* Bounds *)

MaxFolders == 3      \* longest argument list of a sequential caller
MaxConcFolders == 1  \* longest argument list of a concurrent caller
MaxExt == 1          \* steps of the external process
MaxCalls == 2        \* invocations of call_command
MaxChunks == 2       \* chunks a process writes to its output streams
MaxHandlers == 2     \* handlers on the root logger
MaxParams == 2       \* entries of the mapping given to format_benchmark
MaxPrec == 2         \* largest precision given to format_benchmark

-----------------------------------------------------------------------------
(* Paths.  A path is the sequence of its components relative to the        *)
(* working directory; <<>> is the working directory itself.                *)

Paths == { <<"a">>, <<"a", "b">>, <<"a", "b", "c">>, <<"d">> }

Parent(p) == SubSeq(p, 1, Len(p) - 1)

\* p and every proper ancestor of p below the working directory
Prefixes(p) == { SubSeq(p, 1, n) : n \in 1..Len(p) }

Kind(f, p) == IF p = <<>> THEN "dir" ELSE f[p]

\* a filesystem is a tree: an entry exists only inside a directory
WellFormed(f) == \A p \in Paths : f[p] # "none" => Kind(f, Parent(p)) = "dir"

FileSystems == { f \in [Paths -> {"none", "dir", "file"}] : WellFormed(f) }

SeqsUpTo(S, n) == UNION { [1..k -> S] : k \in 0..n }

Procs == {1, 2}

NoErr == [type |-> "none", errno |-> "none", path |-> <<>>, line |-> 0]

-----------------------------------------------------------------------------
(* call_command *)

Cmds == {"true", "exit 7"}

LogFiles == {"run.log"}

ExitCodes == {0, 1, 7, 255, -9}

\* a chunk of output: the invocation whose process wrote it, and the stream
Chunk(n, s) == [inv |-> n, stream |-> s]

\* the content of a path at which there is no file
Absent == <<Chunk(0, "absent")>>

\* call_command has returned nothing (yet); <<v>> when it returned v
NoResult == <<>>

\* content left in a log file by something before the first invocation
OldContent == <<Chunk(0, "stdout")>>

NoExc == [type |-> "none", template |-> "none", cmd |-> "", exitcode |-> 0,
          log_file |-> "None", out |-> <<>>, err |-> <<>>]

\* io.open(log_file, 'wb'): the file is created or truncated
OpenWB_Append(content) == IF content = Absent THEN <<>> ELSE content

OpenWB(content) == <<>>

\* if exitcode != 0:
Failed_Positive(code) == code > 0

Failed(code) == code # 0

\* the RuntimeError of lines 41-45: '... {} returned exit code {}. Output
\* in file {}.'.format(cmd, exitcode, log_file)
LogError(c, code, lf) ==
    [type |-> "RuntimeError", template |-> "log", cmd |-> c, exitcode |-> code,
     log_file |-> lf, out |-> <<>>, err |-> <<>>]

\* the RuntimeError of lines 52-56: '... {} returned exit code {}. Std
\* output: {} Error output: {}'.format(cmd, exitcode, out, err)
PipeError(c, code, o, e) ==
    [type |-> "RuntimeError", template |-> "pipe", cmd |-> c,
     exitcode |-> code, log_file |-> "None", out |-> o, err |-> e]

\* call_command(cmd, log_file) is called
Call(c, lf) ==
    /\ ccpc \in {"idle", "returned", "raised"}
    /\ ninv < MaxCalls
    /\ ninv' = ninv + 1
    /\ cmd' = c
    /\ log_file' = lf
    /\ ccpc' = IF lf # "None" THEN "open" ELSE "popen"
    /\ out' = <<>>
    /\ err' = <<>>
    /\ exitcode' = 0
    /\ result' = NoResult
    /\ ccexc' = NoExc
    /\ prior' = IF lf # "None" THEN files[lf] ELSE Absent
    /\ procOut' = <<>>
    /\ UNCHANGED files
    /\ UNCHANGED <<fsvars, givars, fbvars>>

\* with io.open(log_file, 'wb') as log:
OpenLog ==
    /\ ccpc = "open"
    /\ files' = [files EXCEPT ![log_file] = OpenWB(@)]
    /\ ccpc' = "popen"
    /\ UNCHANGED <<cmd, log_file, out, err, exitcode, result, ccexc, ninv,
                   prior, procOut>>
    /\ UNCHANGED <<fsvars, givars, fbvars>>

\* proc = Popen(cmd, stdout=..., stderr=..., shell=True)
Popen ==
    /\ ccpc = "popen"
    /\ ccpc' = "running"
    /\ UNCHANGED <<cmd, log_file, files, out, err, exitcode, result, ccexc,
                   ninv, prior, procOut>>
    /\ UNCHANGED <<fsvars, givars, fbvars>>

\* the process writes a chunk to its standard output or standard error:
\* to the log file (stdout=log, stderr=log) or to its pipe (stdout=PIPE,
\* stderr=PIPE)
ProcWrite(s) ==
    /\ ccpc = "running"
    /\ Len(procOut) < MaxChunks
    /\ procOut' = Append(procOut, Chunk(ninv, s))
    /\ IF log_file # "None"
       THEN /\ files' = [files EXCEPT ![log_file] = Append(@, Chunk(ninv, s))]
            /\ UNCHANGED <<out, err>>
       ELSE /\ out' = IF s = "stdout" THEN Append(out, Chunk(ninv, s)) ELSE out
            /\ err' = IF s = "stderr" THEN Append(err, Chunk(ninv, s)) ELSE err
            /\ UNCHANGED files
    /\ UNCHANGED <<ccpc, cmd, log_file, exitcode, result, ccexc, ninv, prior>>
    /\ UNCHANGED <<fsvars, givars, fbvars>>

\* the process exits; proc.communicate() returns;
\* exitcode = proc.returncode
ProcExit(code) ==
    /\ ccpc = "running"
    /\ exitcode' = code
    /\ ccpc' = "exited"
    /\ UNCHANGED <<cmd, log_file, files, out, err, result, ccexc, ninv, prior,
                   procOut>>
    /\ UNCHANGED <<fsvars, givars, fbvars>>

\* if exitcode != 0: raise RuntimeError(...)   /   return exitcode
Finish ==
    /\ ccpc = "exited"
    /\ IF Failed(exitcode)
       THEN /\ ccpc' = "raised"
            /\ ccexc' = IF log_file # "None"
                        THEN LogError(cmd, exitcode, log_file)
                        ELSE PipeError(cmd, exitcode, out, err)
            /\ UNCHANGED result
       ELSE /\ ccpc' = "returned"
            /\ result' = <<exitcode>>
            /\ UNCHANGED ccexc
    /\ UNCHANGED <<cmd, log_file, files, out, err, exitcode, ninv, prior,
                   procOut>>
    /\ UNCHANGED <<fsvars, givars, fbvars>>

call_command ==
    \/ OpenLog
    \/ Popen
    \/ \E s \in {"stdout", "stderr"} : ProcWrite(s)
    \/ \E code \in ExitCodes : ProcExit(code)
    \/ Finish

-----------------------------------------------------------------------------
(* general_init *)

\* the levels of the logging module
DEBUG == 10
INFO == 20
WARNING == 30
ERROR == 40

Levels == {DEBUG, INFO, WARNING, ERROR}

\* the logging.info calls of lines 15-27
BannerLines == 12

\* level=logging.DEBUG if debug else logging.INFO
LevelFor(d) == IF d THEN DEBUG ELSE INFO

\* logging.basicConfig(level=l) does nothing when the root logger already
\* has handlers; otherwise it adds a stream handler and sets the level
BasicConfigLevel(handlers, level, l) == IF handlers = 0 THEN l ELSE level

BasicConfigHandlers(handlers) == IF handlers = 0 THEN 1 ELSE handlers

\* general_init(debug) is called
GeneralInit(d) ==
    /\ gipc \in {"idle", "done"}
    /\ gipc' = "basicConfig"
    /\ debug' = d
    /\ line' = 0
    /\ emitted' = 0
    /\ UNCHANGED <<rootLevel, rootHandlers, floatFormatter>>
    /\ UNCHANGED <<fsvars, ccvars, fbvars>>

\* logging.basicConfig(format=..., datefmt=..., level=... )
BasicConfig ==
    /\ gipc = "basicConfig"
    /\ rootLevel' = BasicConfigLevel(rootHandlers, rootLevel, LevelFor(debug))
    /\ rootHandlers' = BasicConfigHandlers(rootHandlers)
    /\ gipc' = "banner"
    /\ UNCHANGED <<debug, line, emitted, floatFormatter>>
    /\ UNCHANGED <<fsvars, ccvars, fbvars>>

\* logging.info(...): the record reaches the handlers when INFO is enabled
\* on the root logger
LogInfo ==
    /\ gipc = "banner"
    /\ line < BannerLines
    /\ line' = line + 1
    /\ emitted' = IF rootLevel <= INFO THEN emitted + 1 ELSE emitted
    /\ UNCHANGED <<gipc, debug, rootLevel, rootHandlers, floatFormatter>>
    /\ UNCHANGED <<fsvars, ccvars, fbvars>>

\* np.set_printoptions(formatter={'float_kind': lambda x: "%.2f" % x})
SetPrintoptions ==
    /\ gipc = "banner"
    /\ line = BannerLines
    /\ floatFormatter' = "%.2f"
    /\ gipc' = "done"
    /\ UNCHANGED <<debug, rootLevel, rootHandlers, line, emitted>>
    /\ UNCHANGED <<fsvars, ccvars, fbvars>>

\* other code of the process, between calls: logging.getLogger().setLevel(l)
OtherSetLevel(l) ==
    /\ gipc \in {"idle", "done"}
    /\ rootLevel' = l
    /\ UNCHANGED <<gipc, debug, rootHandlers, line, emitted, floatFormatter>>
    /\ UNCHANGED <<fsvars, ccvars, fbvars>>

\* other code of the process: logging.getLogger().addHandler(h)
OtherAddHandler ==
    /\ gipc \in {"idle", "done"}
    /\ rootHandlers < MaxHandlers
    /\ rootHandlers' = rootHandlers + 1
    /\ UNCHANGED <<gipc, debug, rootLevel, line, emitted, floatFormatter>>
    /\ UNCHANGED <<fsvars, ccvars, fbvars>>

\* other code of the process: every handler is removed from the root logger
OtherRemoveHandlers ==
    /\ gipc \in {"idle", "done"}
    /\ rootHandlers > 0
    /\ rootHandlers' = 0
    /\ UNCHANGED <<gipc, debug, rootLevel, line, emitted, floatFormatter>>
    /\ UNCHANGED <<fsvars, ccvars, fbvars>>

general_init ==
    \/ BasicConfig
    \/ LogInfo
    \/ SetPrintoptions

-----------------------------------------------------------------------------
(* format_benchmark *)

RECURSIVE Pow10(_)
Pow10(n) == IF n = 0 THEN 1 ELSE 10 * Pow10(n - 1)

\* A value is a decimal number with MaxPrec + 1 decimals, held as the
\* integer number of units of 10^-(MaxPrec + 1); float(value) is the
\* identity on these.
One == Pow10(MaxPrec + 1)

\* 2. * 10.**(- precision), in units
Threshold(prec) == 2 * Pow10(MaxPrec + 1 - prec)

\* 100., in units
Hundred == 100 * One

\* if value < 2. * 10.**(- precision) or value > 100.:
Scientific(v, prec) == v < Threshold(prec) \/ v > Hundred

\* if i > 0: output += ', '
NeedsSeparator_Always(k) == k >= 0

NeedsSeparator(k) == k > 0

\* the pieces of the output string
Sep == [t |-> "sep", key |-> "", notation |-> "", precision |-> 0, value |-> 0]

\* str(key) + (' = {0:.<precision>e}' or ' = {0:.<precision>f}').format(value)
Entry(k, v, prec) ==
    [t |-> "entry", key |-> k,
     notation |-> IF Scientific(v, prec) THEN "e" ELSE "f",
     precision |-> prec, value |-> v]

Keys == {"x", "y", "z"}

Precisions == 0..MaxPrec

\* the values tried with a precision: zero, around both thresholds, inside
\* and outside, of both signs
Magnitudes(prec) ==
    {0, 1, Threshold(prec) - 1, Threshold(prec), Threshold(prec) + 1,
     50 * One, Hundred - 1, Hundred, Hundred + 1, 150 * One}

Values(prec) == Magnitudes(prec) \cup { -m : m \in Magnitudes(prec) }

\* the items of a mapping, in iteration order: no key twice
Mappings(prec) ==
    { s \in SeqsUpTo([key : Keys, value : Values(prec)], MaxParams) :
        \A a, b \in 1..Len(s) : s[a].key = s[b].key => a = b }

\* for i, (key, value) in enumerate(six.iteritems(parameters)): one turn
LoopStep ==
    /\ fbpc = "loop"
    /\ i < Len(parameters)
    /\ LET item == parameters[i + 1]
           sep == IF NeedsSeparator(i) THEN <<Sep>> ELSE <<>>
       IN  output' = output \o sep \o <<Entry(item.key, item.value, precision)>>
    /\ i' = i + 1
    /\ UNCHANGED <<fbpc, parameters, precision>>
    /\ UNCHANGED <<fsvars, ccvars, givars>>

\* return output
Return ==
    /\ fbpc = "loop"
    /\ i = Len(parameters)
    /\ fbpc' = "done"
    /\ UNCHANGED <<parameters, precision, i, output>>
    /\ UNCHANGED <<fsvars, ccvars, givars>>

format_benchmark ==
    \/ LoopStep
    \/ Return

-----------------------------------------------------------------------------
(* The os calls of create_missing_folders *)

\* os.path.exists(folder): stat succeeds
Exists(f, p) == Kind(f, p) # "none"

\* os.path.isdir(folder)
IsDir(f, p) == Kind(f, p) = "dir"

\* the errno of mkdir(2) on p, "ok" when it creates the directory
MkdirResult(f, p) ==
    IF Kind(f, Parent(p)) = "none" THEN "ENOENT"
    ELSE IF Kind(f, Parent(p)) = "file" THEN "ENOTDIR"
    ELSE IF Kind(f, p) # "none" THEN "EEXIST"
    ELSE "ok"

\* folder, the loop variable at position k of "for folder in folders"
FolderAt_Reversed(s, k) == s[Len(s) + 1 - k]

FolderAt(s, k) == s[k]

\* the condition of line 63: not os.path.exists(folder)
FolderMissing_Always(f, p) == TRUE

FolderMissing(f, p) == ~Exists(f, p)

\* the condition of line 66: not os.path.isdir(folder)
NotADirectory_Never(f, p) == FALSE

NotADirectory(f, p) == ~IsDir(f, p)

\* os.makedirs(name) first makes the parent: head and tail and
\* not path.exists(head)
NeedsParent_Never(f, name) == FALSE

NeedsParent(f, name) == Parent(name) # <<>> /\ ~Exists(f, Parent(name))

\* between the existence check of a path and the end of its processing
Checking(p) == pc[p] \in {"isdir", "md_head", "md_mkdir"}

\* p changed q: every other caller that has checked a path and is still
\* processing it records the change (history)
Touch(r, p, q) ==
    [o \in Procs |-> IF o # p /\ Checking(o) THEN r[o] \cup {q} ELSE r[o]]

\* for folder in folders: / if not os.path.exists(folder):
ForStep(p) ==
    /\ UNCHANGED <<ccvars, givars, fbvars>>
    /\ pc[p] = "for"
    /\ IF idx[p] > Len(folders[p])
       THEN /\ pc' = [pc EXCEPT ![p] = "returned"]
            /\ UNCHANGED <<pending, examined>>
       ELSE /\ examined' = [examined EXCEPT ![p] = @ \cup {idx[p]}]
            /\ IF FolderMissing(fs, FolderAt(folders[p], idx[p]))
               THEN /\ pc' = [pc EXCEPT ![p] = "md_head"]
                    /\ pending' = [pending EXCEPT ![p] = <<FolderAt(folders[p], idx[p])>>]
               ELSE /\ pc' = [pc EXCEPT ![p] = "isdir"]
                    /\ UNCHANGED pending
    /\ UNCHANGED <<fs, fs0, fs1, folders, idx, oserr, ncall, raced, extLeft>>

\* elif not os.path.isdir(folder): raise OSError(...)
IsDirStep(p) ==
    /\ UNCHANGED <<ccvars, givars, fbvars>>
    /\ pc[p] = "isdir"
    /\ IF ~NotADirectory(fs, FolderAt(folders[p], idx[p]))
       THEN /\ pc' = [pc EXCEPT ![p] = "for"]
            /\ idx' = [idx EXCEPT ![p] = @ + 1]
            /\ raced' = [raced EXCEPT ![p] = {}]
            /\ UNCHANGED oserr
       ELSE /\ pc' = [pc EXCEPT ![p] = "raised"]
            /\ oserr' = [oserr EXCEPT ![p] = [type |-> "OSError", errno |-> "none",
                                          path |-> FolderAt(folders[p], idx[p]),
                                          line |-> 67]]
            /\ UNCHANGED <<idx, raced>>
    /\ UNCHANGED <<fs, fs0, fs1, folders, pending, examined, ncall, extLeft>>

\* os.makedirs(name): if head and tail and not path.exists(head):
\*                        makedirs(head)
MakedirsHead(p) ==
    /\ UNCHANGED <<ccvars, givars, fbvars>>
    /\ pc[p] = "md_head"
    /\ LET name == pending[p][Len(pending[p])]
           head == Parent(name)
       IN  IF NeedsParent(fs, name)
           THEN /\ pending' = [pending EXCEPT ![p] = Append(@, head)]
                /\ UNCHANGED pc
           ELSE /\ pc' = [pc EXCEPT ![p] = "md_mkdir"]
                /\ UNCHANGED pending
    /\ UNCHANGED <<fs, fs0, fs1, folders, idx, oserr, examined, ncall, raced,
                   extLeft>>

\* os.makedirs(name): mkdir(name), in the innermost frame.  EEXIST raised
\* by a recursive call is swallowed by the frame that made it; every other
\* error, and every error of the outermost frame, ends the call.
MakedirsMkdir(p) ==
    /\ UNCHANGED <<ccvars, givars, fbvars>>
    /\ pc[p] = "md_mkdir"
    /\ LET n == Len(pending[p])
           name == pending[p][n]
           r == MkdirResult(fs, name)
           pop == SubSeq(pending[p], 1, n - 1)
       IN  IF r = "ok" \/ (r = "EEXIST" /\ n > 1)
           THEN /\ fs' = IF r = "ok" THEN [fs EXCEPT ![name] = "dir"] ELSE fs
                /\ pending' = [pending EXCEPT ![p] = pop]
                /\ IF n = 1
                   THEN /\ pc' = [pc EXCEPT ![p] = "for"]
                        /\ idx' = [idx EXCEPT ![p] = @ + 1]
                   ELSE UNCHANGED <<pc, idx>>
                /\ raced' = [o \in Procs |->
                                IF o = p
                                THEN (IF n = 1 THEN {} ELSE raced[p])
                                ELSE (IF r = "ok" THEN Touch(raced, p, name)[o]
                                                  ELSE raced[o])]
                /\ UNCHANGED oserr
           ELSE /\ pc' = [pc EXCEPT ![p] = "raised"]
                /\ oserr' = [oserr EXCEPT ![p] = [type |-> "OSError", errno |-> r,
                                              path |-> name, line |-> 64]]
                /\ UNCHANGED <<fs, raced, pending, idx>>
    /\ UNCHANGED <<fs0, fs1, folders, examined, ncall, extLeft>>

\* the caller calls create_missing_folders again with the same argument
CallAgain(p) ==
    /\ UNCHANGED <<ccvars, givars, fbvars>>
    /\ pc[p] = "returned"
    /\ ncall[p] = 1
    /\ ncall' = [ncall EXCEPT ![p] = 2]
    /\ pc' = [pc EXCEPT ![p] = "for"]
    /\ idx' = [idx EXCEPT ![p] = 1]
    /\ examined' = [examined EXCEPT ![p] = {}]
    /\ fs1' = fs
    /\ UNCHANGED <<fs, fs0, folders, pending, oserr, raced, extLeft>>

create_missing_folders(p) ==
    \/ ForStep(p)
    \/ IsDirStep(p)
    \/ MakedirsHead(p)
    \/ MakedirsMkdir(p)

-----------------------------------------------------------------------------
(* Two concurrent callers and an external process (SpecConc) *)

HasChild(f, q) == \E c \in Paths : Parent(c) = q /\ f[c] # "none"

\* another process creates the directory q
ExtMkdir(q) ==
    /\ UNCHANGED <<ccvars, givars, fbvars>>
    /\ extLeft > 0
    /\ MkdirResult(fs, q) = "ok"
    /\ fs' = [fs EXCEPT ![q] = "dir"]
    /\ raced' = Touch(raced, 0, q)
    /\ extLeft' = extLeft - 1
    /\ UNCHANGED <<fs0, fs1, folders, idx, pc, pending, oserr, examined, ncall>>

\* another process removes the empty directory q
ExtRmdir(q) ==
    /\ UNCHANGED <<ccvars, givars, fbvars>>
    /\ extLeft > 0
    /\ fs[q] = "dir"
    /\ ~HasChild(fs, q)
    /\ fs' = [fs EXCEPT ![q] = "none"]
    /\ raced' = Touch(raced, 0, q)
    /\ extLeft' = extLeft - 1
    /\ UNCHANGED <<fs0, fs1, folders, idx, pc, pending, oserr, examined, ncall>>

\* the paths concurrent callers are given: a nested path, its parent, and
\* an unrelated one
ConcTargets == { <<"a">>, <<"a", "b">>, <<"d">> }

ConcArgs == SeqsUpTo(ConcTargets, MaxConcFolders) \ {<<>>}

-----------------------------------------------------------------------------
(* The specifications.  In each, the functions it is not about are idle. *)

IdleFolders ==
    /\ fs = [q \in Paths |-> "none"]
    /\ fs0 = fs
    /\ fs1 = fs
    /\ folders = [p \in Procs |-> <<>>]
    /\ idx = [p \in Procs |-> 1]
    /\ pc = [p \in Procs |-> "off"]
    /\ pending = [p \in Procs |-> <<>>]
    /\ oserr = [p \in Procs |-> NoErr]
    /\ examined = [p \in Procs |-> {}]
    /\ ncall = [p \in Procs |-> 1]
    /\ raced = [p \in Procs |-> {}]
    /\ extLeft = 0

IdleCmd ==
    /\ ccpc = "idle"
    /\ cmd = ""
    /\ log_file = "None"
    /\ files = [f \in LogFiles |-> Absent]
    /\ out = <<>>
    /\ err = <<>>
    /\ exitcode = 0
    /\ result = NoResult
    /\ ccexc = NoExc
    /\ ninv = 0
    /\ prior = Absent
    /\ procOut = <<>>

IdleInit ==
    /\ gipc = "idle"
    /\ debug = FALSE
    /\ rootLevel = WARNING
    /\ rootHandlers = 0
    /\ line = 0
    /\ emitted = 0
    /\ floatFormatter = "default"

IdleFmt ==
    /\ fbpc = "idle"
    /\ parameters = <<>>
    /\ precision = 0
    /\ i = 0
    /\ output = <<>>

InitFolders ==
    /\ fs \in FileSystems
    /\ fs0 = fs
    /\ fs1 = fs
    /\ folders \in { [p \in Procs |-> IF p = 1 THEN s ELSE <<>>] :
                       s \in SeqsUpTo(Paths, MaxFolders) }
    /\ idx = [p \in Procs |-> 1]
    /\ pc = [p \in Procs |-> IF p = 1 THEN "for" ELSE "off"]
    /\ pending = [p \in Procs |-> <<>>]
    /\ oserr = [p \in Procs |-> NoErr]
    /\ examined = [p \in Procs |-> {}]
    /\ ncall = [p \in Procs |-> 1]
    /\ raced = [p \in Procs |-> {}]
    /\ extLeft = 0
    /\ IdleCmd
    /\ IdleInit
    /\ IdleFmt

NextFolders ==
    \/ create_missing_folders(1)
    \/ CallAgain(1)

SpecFolders == InitFolders /\ [][NextFolders]_vars

InitConc ==
    /\ fs \in { f \in FileSystems : \A q \in Paths : f[q] # "file" }
    /\ fs0 = fs
    /\ fs1 = fs
    /\ folders \in [Procs -> ConcArgs]
    /\ idx = [p \in Procs |-> 1]
    /\ pc = [p \in Procs |-> "for"]
    /\ pending = [p \in Procs |-> <<>>]
    /\ oserr = [p \in Procs |-> NoErr]
    /\ examined = [p \in Procs |-> {}]
    /\ ncall = [p \in Procs |-> 1]
    /\ raced = [p \in Procs |-> {}]
    /\ extLeft = MaxExt
    /\ IdleCmd
    /\ IdleInit
    /\ IdleFmt

NextConc ==
    \/ \E p \in Procs : create_missing_folders(p)
    \/ \E q \in Paths : ExtMkdir(q)
    \/ \E q \in Paths : ExtRmdir(q)

SpecConc == InitConc /\ [][NextConc]_vars

InitCmd ==
    /\ IdleFolders
    /\ IdleInit
    /\ IdleFmt
    /\ ccpc = "idle"
    /\ cmd = ""
    /\ log_file = "None"
    /\ files \in [LogFiles -> {Absent, OldContent}]
    /\ out = <<>>
    /\ err = <<>>
    /\ exitcode = 0
    /\ result = NoResult
    /\ ccexc = NoExc
    /\ ninv = 0
    /\ prior = Absent
    /\ procOut = <<>>

NextCmd ==
    \/ \E c \in Cmds : \E lf \in LogFiles \cup {"None"} : Call(c, lf)
    \/ call_command

SpecCmd == InitCmd /\ [][NextCmd]_vars

InitInit ==
    /\ IdleFolders
    /\ IdleCmd
    /\ IdleFmt
    /\ IdleInit

NextInit ==
    \/ \E d \in BOOLEAN : GeneralInit(d)
    \/ general_init
    \/ \E l \in Levels : OtherSetLevel(l)
    \/ OtherAddHandler
    \/ OtherRemoveHandlers

SpecInit == InitInit /\ [][NextInit]_vars

InitFmt ==
    /\ IdleFolders
    /\ IdleCmd
    /\ IdleInit
    /\ fbpc = "loop"
    /\ precision \in Precisions
    /\ parameters \in Mappings(precision)
    /\ i = 0
    /\ output = <<>>

NextFmt == format_benchmark

SpecFmt == InitFmt /\ [][NextFmt]_vars
-----------------------------------------------------------------------------
(* Properties of create_missing_folders with a single caller (SpecFolders) *)

Ended(p) == pc[p] \in {"returned", "raised"}

Targets(p) == { folders[p][k] : k \in 1..Len(folders[p]) }

\* p is a non-directory file, or lies beneath one
Blocked(f, p) == \E q \in Prefixes(p) : f[q] = "file"

BlockedAt(p) == { k \in 1..Len(folders[p]) : Blocked(fs0, folders[p][k]) }

FirstBlocked(p) == CHOOSE k \in BlockedAt(p) : \A j \in BlockedAt(p) : k <= j

\* C2 as stated: a non-directory file at a target path is never changed,
\* and the call ends with an OS-level error naming that very path instead
\* of returning normally.
C2_FileNamedInError ==
    \A q \in Targets(1) :
        fs0[q] = "file" =>
            /\ fs[q] = "file"
            /\ Ended(1) => /\ pc[1] = "raised"
                           /\ oserr[1].type = "OSError"
                           /\ oserr[1].path = q

\* C2 as amended: a non-directory file at a target path is never changed
\* and the call ends with an OS-level error instead of returning normally;
\* the error is raised at the first position of the sequence whose path is
\* a non-directory file or lies beneath one, and it names that path when
\* the path is itself the file.
C2_FileKeptAndCallFails ==
    \A q \in Targets(1) :
        fs0[q] = "file" =>
            /\ fs[q] = "file"
            /\ Ended(1) =>
                 /\ pc[1] = "raised"
                 /\ oserr[1].type = "OSError"
                 /\ idx[1] = FirstBlocked(1)
                 /\ fs0[folders[1][idx[1]]] = "file" =>
                        /\ oserr[1].path = folders[1][idx[1]]
                        /\ oserr[1].line = 67

\* C2 witness: the call has raised on a target that is a regular file, after
\* creating a directory for an earlier target.
C2_Witness ==
    /\ pc[1] = "raised"
    /\ idx[1] = 2
    /\ fs0[folders[1][2]] = "file"
    /\ oserr[1].path = folders[1][2]
    /\ fs0[folders[1][1]] = "none"
    /\ fs[folders[1][1]] = "dir"

\* C4: the repeated call with the same paths, after a first call that
\* returned normally, creates, removes and changes nothing and does not
\* raise: it only passes through the existence and directory checks.
C4_SecondCallNoOp ==
    ncall[1] = 2 =>
        /\ fs = fs1
        /\ pc[1] \in {"for", "isdir", "returned"}
        /\ oserr[1] = NoErr

\* C4 witness: the repeated call has returned, and the first call had
\* created directories.
C4_Witness ==
    /\ ncall[1] = 2
    /\ pc[1] = "returned"
    /\ Len(folders[1]) >= 2
    /\ fs0[<<"a">>] = "none"
    /\ fs1[<<"a", "b", "c">>] = "dir"

NoneBlocked(p) == \A q \in Targets(p) : ~Blocked(fs0, q)

\* C8: when no target path and no ancestor of one is a non-directory file,
\* the call does not raise, nothing that existed before is changed, and
\* when it returns every target and every ancestor of a target is a
\* directory.
C8_CreatesAll ==
    NoneBlocked(1) =>
        /\ pc[1] # "raised"
        /\ \A q \in Paths : fs0[q] # "none" => fs[q] = fs0[q]
        /\ pc[1] = "returned" =>
               \A t \in Targets(1) : \A q \in Prefixes(t) : fs[q] = "dir"

\* C8 witness: "a/b/c" was created on a filesystem that had none of it,
\* beside an unrelated regular file that is left alone.
C8_Witness ==
    /\ ncall[1] = 1
    /\ pc[1] = "returned"
    /\ NoneBlocked(1)
    /\ <<"a", "b", "c">> \in Targets(1)
    /\ fs0[<<"a">>] = "none"
    /\ fs0[<<"d">>] = "file"
    /\ fs[<<"a", "b", "c">>] = "dir"

\* C10: when the call raises at line 67 because the path at position k
\* exists and is not a directory, the paths at positions 1..k and no
\* others have been examined, every path at a position before k is a
\* directory, together with its ancestors, and nothing else has been
\* created or changed.
C10_PartialProgress ==
    (pc[1] = "raised" /\ oserr[1].line = 67) =>
        LET k == idx[1]
        IN  /\ oserr[1].path = folders[1][k]
            /\ fs0[folders[1][k]] = "file"
            /\ examined[1] = 1..k
            /\ \A j \in 1..(k - 1) :
                   \A q \in Prefixes(folders[1][j]) : fs[q] = "dir"
            /\ \A q \in Paths :
                   fs[q] # fs0[q] =>
                       /\ fs0[q] = "none"
                       /\ fs[q] = "dir"
                       /\ \E j \in 1..(k - 1) : q \in Prefixes(folders[1][j])

\* C10 witness: the call raised at the second of three paths, the first
\* was created and the third, missing before, is still missing.
C10_Witness ==
    /\ pc[1] = "raised"
    /\ oserr[1].line = 67
    /\ Len(folders[1]) = 3
    /\ idx[1] = 2
    /\ fs0[folders[1][1]] = "none"
    /\ fs[folders[1][1]] = "dir"
    /\ fs0[folders[1][3]] = "none"
    /\ fs[folders[1][3]] = "none"
    /\ ~Blocked(fs0, folders[1][3])

-----------------------------------------------------------------------------
(* Properties of concurrent callers (SpecConc) *)

\* C9: on a filesystem that never holds a non-directory file, a call can
\* still end with an OS-level error, and does so only when another actor
\* created or removed the path being processed, or an ancestor of it, after
\* the caller's existence check of that path.
C9_FailsOnlyByRace ==
    \A p \in Procs :
        pc[p] = "raised" =>
            /\ \A q \in Paths : fs[q] # "file"
            /\ oserr[p].type = "OSError"
            /\ raced[p] \cap Prefixes(folders[p][idx[p]]) # {}

\* C9 witness: two callers of the same absent path both saw it absent; one
\* created it and the other failed in os.makedirs with EEXIST, the external
\* process having done nothing.
C9_Witness ==
    /\ extLeft = MaxExt
    /\ folders[1] = folders[2]
    /\ idx[1] = 1 /\ idx[2] = 2
    /\ fs0[folders[1][1]] = "none"
    /\ fs[folders[1][1]] = "dir"
    /\ pc[1] = "raised"
    /\ oserr[1] = [type |-> "OSError", errno |-> "EEXIST",
                 path |-> folders[1][1], line |-> 64]

\* C9, deletion: the external process removed an existing directory between
\* a caller's os.path.exists and os.path.isdir, and the caller raised the
\* error of line 67 for a path that is absent.
C9_WitnessDeleted ==
    \E p \in Procs :
        /\ pc[p] = "raised"
        /\ oserr[p].line = 67
        /\ fs0[oserr[p].path] = "dir"
        /\ fs[oserr[p].path] = "none"

-----------------------------------------------------------------------------
(* Properties of call_command (SpecCmd) *)

CmdEnded == ccpc \in {"returned", "raised"}

\* C1: in both branches call_command returns exactly when the exit code is
\* 0, and then returns 0; for every nonzero exit code it raises a
\* RuntimeError whose message holds the command and the exit code, and it
\* returns nothing.
C1_ReturnsIffZero ==
    CmdEnded =>
        /\ ccpc = "returned" <=> exitcode = 0
        /\ ccpc = "returned" => result = <<0>> /\ ccexc = NoExc
        /\ ccpc = "raised" =>
               /\ result = NoResult
               /\ ccexc.type = "RuntimeError"
               /\ ccexc.cmd = cmd
               /\ ccexc.exitcode = exitcode
               /\ ccexc.template = (IF log_file = "None" THEN "pipe" ELSE "log")

\* C1 witness: without a log file, a process killed by a signal (negative
\* return code) made the call raise, its captured output in the message.
C1_Witness ==
    /\ ccpc = "raised"
    /\ log_file = "None"
    /\ exitcode < 0
    /\ ccexc.out # <<>>
    /\ ccexc.err # <<>>

\* C6: with a log file, from the moment it is opened the file holds exactly
\* what this invocation's process has written to stdout and stderr, in
\* order, and nothing the file held before; so it does when the call ends,
\* by returning or by raising.
C6_LogHoldsOnlyThisRun ==
    (log_file # "None" /\ ccpc \in {"popen", "running", "exited", "returned",
                                     "raised"}) =>
        /\ files[log_file] = procOut
        /\ \A k \in 1..Len(files[log_file]) : files[log_file][k].inv = ninv

\* C6 witness: the command failed after writing to both streams, and the
\* log file, which had content before the call, holds just those chunks.
C6_Witness ==
    /\ ccpc = "raised"
    /\ log_file # "None"
    /\ prior # Absent /\ prior # <<>>
    /\ Len(files[log_file]) = 2
    /\ files[log_file][1].stream # files[log_file][2].stream

\* C6, empty output: the command failed and wrote nothing; the log file,
\* which had content before the call, is empty.
C6_WitnessEmpty ==
    /\ ccpc = "raised"
    /\ log_file # "None"
    /\ prior # Absent /\ prior # <<>>
    /\ files[log_file] = <<>>

-----------------------------------------------------------------------------
(* Properties of general_init (SpecInit) *)

\* C5: after every call general_init(debug), whatever preceded it, the
\* process-wide threshold is DEBUG if debug is true and INFO otherwise.
C5_LevelFollowsDebug ==
    gipc = "done" => rootLevel = LevelFor(debug)

-----------------------------------------------------------------------------
(* Properties of format_benchmark (SpecFmt) *)

Abs(v) == IF v < 0 THEN -v ELSE v

Entries == { k \in 1..Len(output) : output[k].t = "entry" }

\* C3: an entry is rendered in scientific notation exactly when the
\* absolute value of the number is below 2 * 10^(-precision) or strictly
\* above 100, and in fixed-point notation otherwise.
C3_NotationByAbsoluteValue ==
    \A k \in Entries :
        output[k].notation = "e" <=>
            \/ Abs(output[k].value) < Threshold(output[k].precision)
            \/ Abs(output[k].value) > Hundred

\* C7: for a mapping of n entries the returned string is n formatted
\* entries in iteration order with ", " between consecutive entries and
\* nowhere else; the empty mapping yields the empty string.
C7_JoinedInOrder ==
    fbpc = "done" =>
        LET n == Len(parameters)
        IN  /\ Len(output) = IF n = 0 THEN 0 ELSE 2 * n - 1
            /\ \A k \in 1..n :
                   /\ output[2 * k - 1].t = "entry"
                   /\ output[2 * k - 1].key = parameters[k].key
                   /\ output[2 * k - 1].value = parameters[k].value
            /\ \A k \in 1..(n - 1) : output[2 * k] = Sep

\* C7 witness: a mapping of MaxParams entries whose iteration order is not
\* the alphabetical one has been formatted.
C7_Witness ==
    /\ fbpc = "done"
    /\ Len(parameters) = MaxParams
    /\ parameters[1].key = "y"
    /\ parameters[2].key = "x"
    /\ Len(output) = 2 * MaxParams - 1

====
